---------------------------- MODULE Spec2Model ----------------------------
(***************************************************************************)
(* A model of the ycdle data pipeline:                                     *)
(*   scripts/scrape_yc_to_json.py  (fetch, normalise, sort, write)         *)
(*   scripts/build_yc_index.py     (load, index, write)                    *)
(*                                                                         *)
(* A Python str is a sequence of one-character strings, so that strip,     *)
(* lower, upper, str() and int() are computed and not assumed.  A JSON     *)
(* value is a tagged record [t |-> tag, v |-> payload]; a key a mapping    *)
(* lacks is Absent.                                                        *)
(***************************************************************************)
EXTENDS Integers, Sequences, FiniteSets, TLC

(***************************************************************************)
(* Bounds of the model.                                                    *)
(***************************************************************************)
MaxCompanies == 2      \* records in the dataset file read by the index command
MaxUpstream == 3       \* pages the upstream directory holds
MaxRecords == 3        \* raw records handed to the normaliser and sorter

(***************************************************************************)
(* State.  build_yc_index.py: the file at --in, main's position, the       *)
(* loaded companies, build_index's result, the index file, the exit code.  *)
(* scrape_yc_to_json.py: the --max-pages option, the upstream directory,   *)
(* fetch_companies' locals, the calls made to requests.get and time.sleep, *)
(* main's processed list and the file at --out.                            *)
(***************************************************************************)
VARIABLES input_file, index_pc, loaded, index_data, index_file, exit_code

VARIABLES max_pages, upstream, url, companies, page_count, scrape_pc, io_log,
          processed, out_file

indexVars == <<input_file, index_pc, loaded, index_data, index_file, exit_code>>

scrapeVars == <<max_pages, upstream, url, companies, page_count, scrape_pc, io_log,
                processed, out_file>>

vars == <<indexVars, scrapeVars>>

(***************************************************************************)
(* JSON / Python values.                                                   *)
(***************************************************************************)
Absent == [t |-> "absent"]
Null == [t |-> "null"]
S(text) == [t |-> "str", v |-> text]
I(n) == [t |-> "int", v |-> n]
L(items) == [t |-> "list", v |-> items]
M(keys) == [t |-> "map", v |-> keys]

\* dict.get(key): None for a key the mapping lacks
Get(value) == IF value = Absent THEN Null ELSE value

\* dict.get(key, default)
GetDefault(value, default) == IF value = Absent THEN default ELSE value

(***************************************************************************)
(* Python string primitives.                                               *)
(***************************************************************************)
Whitespace == {" ", "\t", "\n", "\r"}
UpperLetters == <<"A", "B", "E", "I", "K", "L", "N", "O", "S", "U", "W", "X">>
LowerLetters == <<"a", "b", "e", "i", "k", "l", "n", "o", "s", "u", "w", "x">>
Digits == <<"0", "1", "2", "3", "4", "5", "6", "7", "8", "9">>

LowerChar(c) ==
    IF \E i \in DOMAIN UpperLetters : UpperLetters[i] = c
    THEN LowerLetters[CHOOSE i \in DOMAIN UpperLetters : UpperLetters[i] = c]
    ELSE c

UpperChar(c) ==
    IF \E i \in DOMAIN LowerLetters : LowerLetters[i] = c
    THEN UpperLetters[CHOOSE i \in DOMAIN LowerLetters : LowerLetters[i] = c]
    ELSE c

\* str.lower()
Lower(s) == [i \in 1..Len(s) |-> LowerChar(s[i])]

\* str.upper()
Upper(s) == [i \in 1..Len(s) |-> UpperChar(s[i])]

RECURSIVE LStrip(_)
LStrip(s) ==
    IF s # <<>> /\ Head(s) \in Whitespace THEN LStrip(Tail(s)) ELSE s

RECURSIVE RStrip(_)
RStrip(s) ==
    IF s # <<>> /\ s[Len(s)] \in Whitespace
    THEN RStrip(SubSeq(s, 1, Len(s) - 1))
    ELSE s

\* str.strip()
Strip(s) == RStrip(LStrip(s))

IsDigit(c) == \E i \in DOMAIN Digits : Digits[i] = c
DigitValue(c) == (CHOOSE i \in DOMAIN Digits : Digits[i] = c) - 1

RECURSIVE NatToText(_)
NatToText(n) ==
    IF n < 10 THEN <<Digits[n + 1]>>
    ELSE NatToText(n \div 10) \o <<Digits[(n % 10) + 1]>>

\* str(int)
IntToText(n) == IF n < 0 THEN <<"-">> \o NatToText(0 - n) ELSE NatToText(n)

\* str(value) for None, str and int values
Str(value) ==
    CASE value.t = "null" -> <<"N", "o", "n", "e">>
      [] value.t = "str" -> value.v
      [] value.t = "int" -> IntToText(value.v)

\* Python truthiness of a value: None, "", 0, [] and {} are falsy
Truthy(value) ==
    CASE value.t = "null" -> FALSE
      [] value.t = "str" -> value.v # <<>>
      [] value.t = "int" -> value.v # 0
      [] value.t = "list" -> value.v # <<>>
      [] value.t = "map" -> value.v # <<>>

(***************************************************************************)
(* Finite maps (Python dict) keyed by text.                                *)
(***************************************************************************)
EmptyMap == [k \in {} |-> 0]
Put(f, k, val) == [x \in (DOMAIN f) \cup {k} |-> IF x = k THEN val ELSE f[x]]

\* defaultdict(list)[k].append(index)
AppendAt(occ, k, index) ==
    Put(occ, k, IF k \in DOMAIN occ THEN Append(occ[k], index) ELSE <<index>>)

(***************************************************************************)
(* build_yc_index.py                                                       *)
(***************************************************************************)
\* the tuple ("none", "null") of line 47
SentinelSlugs == {<<"n", "o", "n", "e">>, <<"n", "u", "l", "l">>}

\* slug_str = str(slug).strip()
SlugStr(slug) == Strip(Str(slug))

\* SlugQualifies without the "none"/"null" sentinels: a faulty variant
SlugQualifies_keeps_sentinels(slug) ==
    /\ slug.t # "null"
    /\ slug # S(<<>>)
    /\ Strip(Str(slug)) # <<>>

SlugQualifies(slug) ==
    /\ slug.t # "null"
    /\ slug # S(<<>>)
    /\ Strip(Str(slug)) # <<>>
    /\ Lower(Strip(Str(slug))) \notin SentinelSlugs

\* one iteration of the loop over enumerate(companies); index is zero-based
IndexStep(st, company, index) ==
    LET slug == Get(company.slug)
        company_id == Get(company.id)
        withSlug ==
            IF SlugQualifies(slug)
            THEN [st EXCEPT !.slug_occurrences = AppendAt(@, SlugStr(slug), index),
                            !.by_slug = Put(@, SlugStr(slug), index)]
            ELSE st
    IN  IF company_id.t # "null"
        THEN [withSlug EXCEPT !.id_occurrences = AppendAt(@, Str(company_id), index),
                              !.by_id = Put(@, Str(company_id), index)]
        ELSE withSlug

RECURSIVE IndexLoop(_, _)
IndexLoop(records, n) ==
    IF n = 0
    THEN [by_slug |-> EmptyMap, by_id |-> EmptyMap,
          slug_occurrences |-> EmptyMap, id_occurrences |-> EmptyMap]
    ELSE IndexStep(IndexLoop(records, n - 1), records[n], n - 1)

Duplicates(occ) == [k \in {x \in DOMAIN occ : Len(occ[x]) > 1} |-> occ[k]]

\* build_index: the index, or the ValueError it raises
build_index(records) ==
    LET st == IndexLoop(records, Len(records))
        duplicate_slugs == Duplicates(st.slug_occurrences)
        duplicate_ids == Duplicates(st.id_occurrences)
    IN  IF DOMAIN duplicate_slugs # {}
        THEN [raised |-> TRUE, heading |-> "Duplicate slugs found:",
              entries |-> duplicate_slugs]
        ELSE IF DOMAIN duplicate_ids # {}
        THEN [raised |-> TRUE, heading |-> "Duplicate ids found:",
              entries |-> duplicate_ids]
        ELSE [raised |-> FALSE, bySlug |-> st.by_slug, byId |-> st.by_id]

\* load_companies without the "companies" check, a faulty variant: main's
\* data.get("companies", []) then sees an empty list
load_companies_without_key_check(file) ==
    CASE file.kind = "missing" -> [exc |-> "FileNotFoundError", data |-> <<>>]
      [] file.kind = "invalid_json" -> [exc |-> "JSONDecodeError", data |-> <<>>]
      [] file.kind = "no_companies" -> [exc |-> "none", data |-> <<>>]
      [] file.kind = "dataset" -> [exc |-> "none", data |-> file.companies]

\* load_companies: the exception it raises, or the parsed document
load_companies(file) ==
    CASE file.kind = "missing" -> [exc |-> "FileNotFoundError", data |-> <<>>]
      [] file.kind = "invalid_json" -> [exc |-> "JSONDecodeError", data |-> <<>>]
      [] file.kind = "no_companies" -> [exc |-> "ValueError", data |-> <<>>]
      [] file.kind = "dataset" -> [exc |-> "none", data |-> file.companies]

NoFile == [exists |-> FALSE]
NoIndex == [raised |-> FALSE]

IndexExit(code) ==
    /\ index_pc' = "exit"
    /\ exit_code' = code

\* main, lines 101-116: the input loads
LoadCompanies ==
    /\ index_pc = "load"
    /\ load_companies(input_file).exc = "none"
    /\ loaded' = load_companies(input_file).data
    /\ index_pc' = "build"
    /\ UNCHANGED <<input_file, index_data, index_file, exit_code>>
    /\ UNCHANGED scrapeVars

\* main, lines 106-114: the three except branches, each sys.exit(1)
LoadFileNotFound ==
    /\ index_pc = "load"
    /\ load_companies(input_file).exc = "FileNotFoundError"
    /\ IndexExit(1)
    /\ UNCHANGED <<input_file, loaded, index_data, index_file>>
    /\ UNCHANGED scrapeVars

LoadInvalidJson ==
    /\ index_pc = "load"
    /\ load_companies(input_file).exc = "JSONDecodeError"
    /\ IndexExit(1)
    /\ UNCHANGED <<input_file, loaded, index_data, index_file>>
    /\ UNCHANGED scrapeVars

LoadMissingKey ==
    /\ index_pc = "load"
    /\ load_companies(input_file).exc = "ValueError"
    /\ IndexExit(1)
    /\ UNCHANGED <<input_file, loaded, index_data, index_file>>
    /\ UNCHANGED scrapeVars

\* main, lines 118-121: build_index returns
BuildIndex ==
    /\ index_pc = "build"
    /\ ~build_index(loaded).raised
    /\ index_data' = build_index(loaded)
    /\ index_pc' = "write"
    /\ UNCHANGED <<input_file, loaded, index_file, exit_code>>
    /\ UNCHANGED scrapeVars

\* main, lines 122-124: build_index raises ValueError, sys.exit(1)
BuildIndexError ==
    /\ index_pc = "build"
    /\ build_index(loaded).raised
    /\ index_data' = build_index(loaded)
    /\ IndexExit(1)
    /\ UNCHANGED <<input_file, loaded, index_file>>
    /\ UNCHANGED scrapeVars

\* main, lines 126-143: the index file is written and main returns
WriteIndex ==
    /\ index_pc = "write"
    /\ index_file' = [exists |-> TRUE, bySlug |-> index_data.bySlug,
                      byId |-> index_data.byId]
    /\ IndexExit(0)
    /\ UNCHANGED <<input_file, loaded, index_data>>
    /\ UNCHANGED scrapeVars

SlugValues ==
    {Absent, Null, S(<<>>), S(<<" ">>), S(<<"a">>), S(<<" ", "a", " ">>),
     S(<<"b">>), S(<<"N", "o", "n", "e">>), S(<<"n", "u", "l", "l">>)}

IdValues == {Absent, Null, I(1), I(2), S(<<"1">>)}

IndexRecords == [slug : SlugValues, id : IdValues]

SeqsUpTo(set, n) == UNION {[1..k -> set] : k \in 0..n}

InputFiles ==
    {[kind |-> k, companies |-> <<>>] : k \in {"missing", "invalid_json", "no_companies"}}
    \cup {[kind |-> "dataset", companies |-> cs] : cs \in SeqsUpTo(IndexRecords, MaxCompanies)}

IndexInit ==
    /\ input_file \in InputFiles
    /\ index_pc = "load"
    /\ loaded = <<>>
    /\ index_data = NoIndex
    /\ index_file = NoFile
    /\ exit_code = 0

IndexNext ==
    \/ LoadCompanies
    \/ LoadFileNotFound
    \/ LoadInvalidJson
    \/ LoadMissingKey
    \/ BuildIndex
    \/ BuildIndexError
    \/ WriteIndex

(***************************************************************************)
(* scrape_yc_to_json.py: the pure functions                                *)
(***************************************************************************)
Raise == [raised |-> TRUE]
Return(val) == [raised |-> FALSE, v |-> val]

RECURSIVE ReplaceControl(_)
\* s.replace("\n", " ").replace("\r", " ").replace("\t", " ")
ReplaceControl(s) ==
    IF s = <<>> THEN <<>>
    ELSE <<IF Head(s) \in {"\n", "\r", "\t"} THEN " " ELSE Head(s)>>
         \o ReplaceControl(Tail(s))

HasDoubleSpace(s) == \E i \in 1..(Len(s) - 1) : s[i] = " " /\ s[i + 1] = " "

RECURSIVE ReplaceDoubleSpace(_)
\* s.replace("  ", " "): left to right, occurrences do not overlap
ReplaceDoubleSpace(s) ==
    IF Len(s) < 2 THEN s
    ELSE IF s[1] = " " /\ s[2] = " "
    THEN <<" ">> \o ReplaceDoubleSpace(SubSeq(s, 3, Len(s)))
    ELSE <<s[1]>> \o ReplaceDoubleSpace(Tail(s))

RECURSIVE CollapseSpaces(_)
\* while "  " in s: s = s.replace("  ", " ")
CollapseSpaces(s) ==
    IF HasDoubleSpace(s) THEN CollapseSpaces(ReplaceDoubleSpace(s)) ELSE s

\* sanitize_text applied to any value: a falsy value gives "", a str is
\* cleaned, and any other value has no .replace (AttributeError)
sanitize_text(value) ==
    IF ~Truthy(value) THEN Return(<<>>)
    ELSE IF value.t = "str"
    THEN Return(Strip(CollapseSpaces(ReplaceControl(value.v))))
    ELSE Raise

RECURSIVE DigitsValue(_)
DigitsValue(s) ==
    IF s = <<>> THEN 0
    ELSE 10 * DigitsValue(SubSeq(s, 1, Len(s) - 1)) + DigitValue(s[Len(s)])

\* the digit groups int() accepts: digits, single underscores between them
IsIntBody(s) ==
    /\ s # <<>>
    /\ \A i \in 1..Len(s) : IsDigit(s[i]) \/ s[i] = "_"
    /\ IsDigit(s[1]) /\ IsDigit(s[Len(s)])
    /\ \A i \in 1..(Len(s) - 1) : ~(s[i] = "_" /\ s[i + 1] = "_")

WithoutUnderscores(s) == SelectSeq(s, LAMBDA c : c # "_")

\* int(text): surrounding whitespace, an optional sign, then the digit groups;
\* anything else is a ValueError
PyInt(text) ==
    LET t == Strip(text)
        signed == t # <<>> /\ Head(t) \in {"+", "-"}
        body == IF signed THEN Tail(t) ELSE t
    IN  IF IsIntBody(body)
        THEN Return(IF signed /\ Head(t) = "-"
                    THEN 0 - DigitsValue(WithoutUnderscores(body))
                    ELSE DigitsValue(WithoutUnderscores(body)))
        ELSE Raise

\* A float with two decimals is held in hundredths: 2024.25 is 202425.
\* str(float) of such a value (shortest repr).
FloatToText(q) ==
    LET a == IF q < 0 THEN 0 - q ELSE q
        frac == a % 100
    IN  (IF q < 0 THEN <<"-">> ELSE <<>>)
        \o NatToText(a \div 100) \o <<".">>
        \o (IF frac % 10 = 0 THEN NatToText(frac \div 10)
            ELSE <<Digits[(frac \div 10) + 1], Digits[(frac % 10) + 1]>>)

\* float(text) for text of that shape; anything else is a ValueError
PyFloat(text) ==
    LET signed == text # <<>> /\ Head(text) = "-"
        body == IF signed THEN Tail(text) ELSE text
        dots == {i \in 1..Len(body) : body[i] = "."}
    IN  IF /\ Cardinality(dots) = 1
           /\ \A i \in (1..Len(body)) \ dots : IsDigit(body[i])
           /\ LET d == CHOOSE i \in dots : TRUE
              IN  d > 1 /\ Len(body) - d \in {1, 2}
        THEN LET d == CHOOSE i \in dots : TRUE
                 whole == DigitsValue(SubSeq(body, 1, d - 1))
                 fr == SubSeq(body, d + 1, Len(body))
                 frac == IF Len(fr) = 1 THEN 10 * DigitsValue(fr) ELSE DigitsValue(fr)
                 a == 100 * whole + frac
             IN  Return(IF signed THEN 0 - a ELSE a)
        ELSE Raise

Winter == 25
Summer == 75
BaseYear == 2000

\* parse_batch_index
parse_batch_index(batch) ==
    IF batch = <<>> THEN <<>>
    ELSE LET b == Upper(Strip(batch))
             yy == PyInt(SubSeq(b, 2, Len(b)))
         IN  IF b # <<>> /\ b[1] = "W" /\ Len(b) >= 3 /\ ~yy.raised
             THEN FloatToText(100 * (BaseYear + yy.v) + Winter)
             ELSE IF b # <<>> /\ b[1] = "S" /\ Len(b) >= 3 /\ ~yy.raised
             THEN FloatToText(100 * (BaseYear + yy.v) + Summer)
             ELSE <<>>

RECURSIVE StrItems(_)
\* [str(item) for item in value if item is not None]
StrItems(items) ==
    IF items = <<>> THEN <<>>
    ELSE (IF Head(items).t = "null" THEN <<>> ELSE <<Str(Head(items))>>)
         \o StrItems(Tail(items))

\* to_array; a mapping is held as the sequence of its keys
to_array(value) ==
    CASE value.t = "null" -> <<>>
      [] value.t = "list" -> StrItems(value.v)
      [] value.t = "map" -> StrItems(value.v)
      [] OTHER -> <<>>

\* primary_industry, lines 134-137
primary_industry(industries) ==
    IF industries.t = "list" /\ industries.v # <<>>
    THEN IF industries.v[1].t # "null" THEN Str(industries.v[1]) ELSE <<>>
    ELSE <<>>

\* process_company: the canonical record, or the exception that escapes
process_company(company) ==
    LET name == sanitize_text(GetDefault(company.name, S(<<>>)))
        one_liner == sanitize_text(GetDefault(company.oneLiner, S(<<>>)))
        batch == Str(GetDefault(company.batch, S(<<>>)))
        batch_index == parse_batch_index(batch)
        industries == GetDefault(company.industries, L(<<>>))
    IN  IF name.raised \/ one_liner.raised THEN Raise
        ELSE Return([id |-> Get(company.id),
                     slug |-> Str(GetDefault(company.slug, S(<<>>))),
                     name |-> name.v,
                     smallLogoUrl |-> Str(GetDefault(company.smallLogoUrl, S(<<>>))),
                     oneLiner |-> one_liner.v,
                     batch |-> batch,
                     batchIndex |-> IF batch_index # <<>> THEN batch_index ELSE <<>>,
                     status |-> Str(GetDefault(company.status, S(<<>>))),
                     primaryIndustry |-> primary_industry(industries),
                     industries |-> to_array(industries),
                     badges |-> to_array(GetDefault(company.badges, L(<<>>))),
                     regions |-> to_array(GetDefault(company.regions, L(<<>>)))])

(***************************************************************************)
(* scrape_yc_to_json.py: sort_key and list.sort                            *)
(***************************************************************************)
\* code points of the characters the model's names use
CodePoint(c) ==
    CASE c = " " -> 32
      [] c = "A" -> 65
      [] c = "B" -> 66
      [] c = "a" -> 97
      [] c = "b" -> 98

RECURSIVE TextLess(_, _)
\* str < str: by code point, a proper prefix first
TextLess(a, b) ==
    IF b = <<>> THEN FALSE
    ELSE IF a = <<>> THEN TRUE
    ELSE IF Head(a) # Head(b) THEN CodePoint(Head(a)) < CodePoint(Head(b))
    ELSE TextLess(Tail(a), Tail(b))

\* a float: inf is -1 for -inf, 1 for inf, 0 for the finite value q hundredths
Finite(q) == [inf |-> 0, q |-> q]
MinusInf == [inf |-> 0 - 1, q |-> 0]
Negate(f) == [inf |-> 0 - f.inf, q |-> 0 - f.q]
FloatLess(a, b) == IF a.inf # b.inf THEN a.inf < b.inf ELSE a.inf = 0 /\ a.q < b.q

\* sort_key without the negation of batch_val: a faulty variant
sort_key_ascending(row) ==
    LET batch_idx == row.batchIndex
        parsed == PyFloat(batch_idx)
        batch_val == IF batch_idx # <<>> /\ ~parsed.raised THEN Finite(parsed.v) ELSE MinusInf
    IN  [is_blank |-> batch_idx = <<>>, neg_batch_val |-> batch_val,
         name |-> Lower(row.name)]

\* sort_key: the tuple (is_blank, -batch_val, name)
sort_key(row) ==
    LET batch_idx == row.batchIndex
        parsed == PyFloat(batch_idx)
        batch_val == IF batch_idx # <<>> /\ ~parsed.raised THEN Finite(parsed.v) ELSE MinusInf
    IN  [is_blank |-> batch_idx = <<>>, neg_batch_val |-> Negate(batch_val),
         name |-> Lower(row.name)]

\* tuple < tuple: the first component that differs decides; False < True
KeyLess(k1, k2) ==
    IF k1.is_blank # k2.is_blank THEN k2.is_blank
    ELSE IF k1.neg_batch_val # k2.neg_batch_val
    THEN FloatLess(k1.neg_batch_val, k2.neg_batch_val)
    ELSE TextLess(k1.name, k2.name)

RECURSIVE InsertByKey(_, _)
\* x goes before the first row whose key is greater than its own
InsertByKey(sorted, x) ==
    IF sorted = <<>> THEN <<x>>
    ELSE IF KeyLess(sort_key(x), sort_key(Head(sorted))) THEN <<x>> \o sorted
    ELSE <<Head(sorted)>> \o InsertByKey(Tail(sorted), x)

RECURSIVE SortRows(_)
\* processed.sort(key=sort_key): a stable sort
SortRows(rows) ==
    IF rows = <<>> THEN <<>>
    ELSE InsertByKey(SortRows(SubSeq(rows, 1, Len(rows) - 1)), rows[Len(rows)])

(***************************************************************************)
(* scrape_yc_to_json.py: fetch_companies and main                          *)
(***************************************************************************)
\* the URL of page k of the directory; page 1 is the endpoint itself
Url(k) == [t |-> "url", v |-> k]

TransportError == [ok |-> FALSE, companies |-> <<>>, hasNext |-> FALSE]

\* requests.get(url): the page the upstream holds there, or a failure
Response(u) == IF u.v \in DOMAIN upstream THEN upstream[u.v] ELSE TransportError

\* if max_pages and page_count >= max_pages
CapReached == Truthy(max_pages) /\ page_count >= max_pages.v

\* while url: ... ends because url is None
LoopExit ==
    /\ scrape_pc = "loop"
    /\ url = Null
    /\ scrape_pc' = "fetched"
    /\ UNCHANGED <<max_pages, upstream, url, companies, page_count, io_log,
                   processed, out_file>>
    /\ UNCHANGED indexVars

\* lines 90-91: break on the page cap
CapBreak ==
    /\ scrape_pc = "loop"
    /\ url # Null
    /\ CapReached
    /\ scrape_pc' = "fetched"
    /\ UNCHANGED <<max_pages, upstream, url, companies, page_count, io_log,
                   processed, out_file>>
    /\ UNCHANGED indexVars

\* lines 93-105: a page is fetched and its companies are kept
FetchPage ==
    /\ scrape_pc = "loop"
    /\ url # Null
    /\ ~CapReached
    /\ Response(url).ok
    /\ companies' = companies \o Response(url).companies
    /\ page_count' = page_count + 1
    /\ url' = IF Response(url).hasNext THEN Url(url.v + 1) ELSE Null
    /\ io_log' = Append(io_log, "get")
    /\ scrape_pc' = IF Response(url).hasNext THEN "sleep" ELSE "loop"
    /\ UNCHANGED <<max_pages, upstream, processed, out_file>>
    /\ UNCHANGED indexVars

\* lines 108-109: time.sleep(0.2) when nextPage is set
Sleep ==
    /\ scrape_pc = "sleep"
    /\ io_log' = Append(io_log, "sleep")
    /\ scrape_pc' = "loop"
    /\ UNCHANGED <<max_pages, upstream, url, companies, page_count, processed, out_file>>
    /\ UNCHANGED indexVars

\* lines 111-113: the request fails, the loop is left
FetchError ==
    /\ scrape_pc = "loop"
    /\ url # Null
    /\ ~CapReached
    /\ ~Response(url).ok
    /\ io_log' = Append(io_log, "get")
    /\ scrape_pc' = "fetched"
    /\ UNCHANGED <<max_pages, upstream, url, companies, page_count, processed, out_file>>
    /\ UNCHANGED indexVars

ProcessAll(raw) == [i \in 1..Len(raw) |-> process_company(raw[i])]

NoOutput == [exists |-> FALSE]

\* main, lines 189-191: nothing was collected
NoCompanies ==
    /\ scrape_pc = "fetched"
    /\ companies = <<>>
    /\ scrape_pc' = "exit"
    /\ UNCHANGED <<max_pages, upstream, url, companies, page_count, io_log,
                   processed, out_file>>
    /\ UNCHANGED indexVars

\* main, line 195: every record is normalised
ProcessCompanies ==
    /\ scrape_pc = "fetched"
    /\ companies # <<>>
    /\ \A i \in 1..Len(companies) : ~ProcessAll(companies)[i].raised
    /\ processed' = [i \in 1..Len(companies) |-> ProcessAll(companies)[i].v]
    /\ scrape_pc' = "sort"
    /\ UNCHANGED <<max_pages, upstream, url, companies, page_count, io_log, out_file>>
    /\ UNCHANGED indexVars

\* main, line 195: process_company raises and nothing catches it
ProcessRaises ==
    /\ scrape_pc = "fetched"
    /\ \E i \in 1..Len(companies) : ProcessAll(companies)[i].raised
    /\ scrape_pc' = "traceback"
    /\ UNCHANGED <<max_pages, upstream, url, companies, page_count, io_log,
                   processed, out_file>>
    /\ UNCHANGED indexVars

\* main, lines 197-211
SortProcessed ==
    /\ scrape_pc = "sort"
    /\ processed' = SortRows(processed)
    /\ scrape_pc' = "write"
    /\ UNCHANGED <<max_pages, upstream, url, companies, page_count, io_log, out_file>>
    /\ UNCHANGED indexVars

\* main, lines 213-229
WriteJson ==
    /\ scrape_pc = "write"
    /\ out_file' = [exists |-> TRUE, count |-> Len(processed), companies |-> processed]
    /\ scrape_pc' = "exit"
    /\ UNCHANGED <<max_pages, upstream, url, companies, page_count, io_log, processed>>
    /\ UNCHANGED indexVars

(***************************************************************************)
(* Inputs and specifications.                                              *)
(***************************************************************************)
IndexIdle ==
    /\ input_file = [kind |-> "missing", companies |-> <<>>]
    /\ index_pc = "idle"
    /\ loaded = <<>>
    /\ index_data = NoIndex
    /\ index_file = NoFile
    /\ exit_code = 0

ScrapeIdle ==
    /\ max_pages = Null
    /\ upstream = <<>>
    /\ url = Null
    /\ companies = <<>>
    /\ page_count = 0
    /\ scrape_pc = "idle"
    /\ io_log = <<>>
    /\ processed = <<>>
    /\ out_file = NoOutput

\* the index command on any input file
InitIndex == IndexInit /\ ScrapeIdle

SpecIndex == InitIndex /\ [][IndexNext]_vars

EmptyRecord ==
    [id |-> Absent, slug |-> Absent, name |-> Absent, smallLogoUrl |-> Absent,
     oneLiner |-> Absent, batch |-> Absent, status |-> Absent,
     industries |-> Absent, badges |-> Absent, regions |-> Absent]

PageContents ==
    {<<>>, <<[EmptyRecord EXCEPT !.id = I(1)]>>,
     <<[EmptyRecord EXCEPT !.id = I(2)], [EmptyRecord EXCEPT !.id = I(3)]>>}

Responses ==
    {TransportError}
    \cup {[ok |-> TRUE, companies |-> c, hasNext |-> n] : c \in PageContents, n \in BOOLEAN}

MaxPagesValues == {Null, I(0), I(1), I(2)}

FetchInit ==
    /\ max_pages \in MaxPagesValues
    /\ upstream \in SeqsUpTo(Responses, MaxUpstream)
    /\ url = Url(1)
    /\ companies = <<>>
    /\ page_count = 0
    /\ scrape_pc = "loop"
    /\ io_log = <<>>
    /\ processed = <<>>
    /\ out_file = NoOutput

FetchNext ==
    \/ LoopExit
    \/ CapBreak
    \/ FetchPage
    \/ Sleep
    \/ FetchError

\* fetch_companies against any upstream of at most MaxUpstream pages
InitFetch == FetchInit /\ IndexIdle

SpecFetch == InitFetch /\ [][FetchNext]_vars

\* main after fetch_companies has returned the list raw
MainInit(raw) ==
    /\ max_pages = Null
    /\ upstream = <<>>
    /\ url = Null
    /\ companies \in raw
    /\ page_count = 0
    /\ scrape_pc = "fetched"
    /\ io_log = <<>>
    /\ processed = <<>>
    /\ out_file = NoOutput

MainNext ==
    \/ NoCompanies
    \/ ProcessCompanies
    \/ ProcessRaises
    \/ SortProcessed
    \/ WriteJson

SortRecords ==
    {[EmptyRecord EXCEPT !.name = n, !.batch = b] :
        n \in {S(<<"a">>), S(<<"A">>), S(<<"B">>), I(7)},
        b \in {Absent, S(<<"W", "2", "4">>), S(<<"S", "2", "4">>), S(<<"s", "2", "3">>)}}

\* main on up to MaxRecords records that differ in name and batch
InitSort == MainInit(SeqsUpTo(SortRecords, MaxRecords)) /\ IndexIdle

SpecSort == InitSort /\ [][MainNext]_vars

RichRecords ==
    [id : {Absent, I(1)},
     slug : {Absent, Null, S(<<"a">>), I(7)},
     name : {Absent, Null, S(<<" ", "a", "\n", "\t", "b", " ">>), I(7)},
     smallLogoUrl : {Absent, Null},
     oneLiner : {Absent, S(<<"a", " ", " ", " ", "b">>)},
     batch : {Absent, Null, S(<<"W", "2", "4">>)},
     status : {Null, S(<<"a">>)},
     industries : {Absent, Null, L(<<>>), L(<<S(<<"a">>)>>), L(<<Null, S(<<"a">>)>>),
                   M(<<S(<<"a">>), S(<<"b">>)>>), S(<<"a">>)},
     badges : {Absent, L(<<S(<<"b">>), Null, I(7)>>)},
     regions : {Null, M(<<S(<<"u">>)>>)}]

\* main on one record whose fields take every shape
InitRecord == MainInit({<<>>} \cup {<<r>> : r \in RichRecords}) /\ IndexIdle

SpecRecord == InitRecord /\ [][MainNext]_vars

BatchLabels ==
    {<<>>, <<"W", "2", "4">>, <<"S", "2", "4">>, <<"w", "2", "4">>,
     <<" ", "s", "2", "1", " ">>, <<"I", "K", "1", "2">>, <<"W", "5">>, <<"W">>,
     <<"S">>, <<"W", "0", "5">>, <<"S", "1", "0", "0">>, <<"X", "2", "4">>,
     <<"2", "4">>, <<"W", "2", "a">>, <<"W", "-", "5">>, <<"S", "+", "2", "4">>,
     <<"W", "2", "_", "4">>, <<"W", " ", "2", "4">>, <<"S", "-", "-", "5">>,
     <<"W", "_", "2", "4">>}

BatchRecords ==
    {[EmptyRecord EXCEPT !.name = n, !.batch = S(b)] :
        n \in {Absent, I(7)}, b \in BatchLabels}

\* main on one record, over the batch labels
InitBatch == MainInit({<<>>} \cup {<<r>> : r \in BatchRecords}) /\ IndexIdle

SpecBatch == InitBatch /\ [][MainNext]_vars

(***************************************************************************)
(* Claims about build_yc_index.py, checked under SpecIndex.                *)
(***************************************************************************)
\* build_index has run on the loaded companies
IndexBuilt == index_pc \in {"write", "exit"} /\ input_file.kind = "dataset"

Range(seq) == {seq[i] : i \in 1..Len(seq)}

\* the slug key of the record at zero-based position i, stated from the
\* contract: the trimmed slug, when it is non-empty and neither none nor null
HasSlugKey(i) ==
    LET slug == loaded[i + 1].slug
    IN  /\ slug.t = "str"
        /\ Strip(slug.v) # <<>>
        /\ Lower(Strip(slug.v)) # <<"n", "o", "n", "e">>
        /\ Lower(Strip(slug.v)) # <<"n", "u", "l", "l">>

SlugKeyAt(i) == Strip(loaded[i + 1].slug.v)
HasIdKey(i) == loaded[i + 1].id.t \in {"str", "int"}
IdKeyAt(i) == Str(loaded[i + 1].id)
Positions == 0..(Len(loaded) - 1)
SlugClaimants(k) == {i \in Positions : HasSlugKey(i) /\ SlugKeyAt(i) = k}
IdClaimants(k) == {i \in Positions : HasIdKey(i) /\ IdKeyAt(i) = k}
SlugKeys == {SlugKeyAt(i) : i \in {j \in Positions : HasSlugKey(j)}}
IdKeys == {IdKeyAt(i) : i \in {j \in Positions : HasIdKey(j)}}
DuplicatedSlugs == {k \in SlugKeys : Cardinality(SlugClaimants(k)) > 1}
DuplicatedIds == {k \in IdKeys : Cardinality(IdClaimants(k)) > 1}

\* the raised report lists key k with exactly these positions under heading
ReportNames(heading, k, positions) ==
    /\ index_data.raised
    /\ index_data.heading = heading
    /\ k \in DOMAIN index_data.entries
    /\ Range(index_data.entries[k]) = positions

\* C1: whenever a slug key or an id key is claimed by more than one position,
\* build_index fails and its report names every duplicated slug and every
\* duplicated id, each with all the positions that claimed it.
C1_ReportNamesEveryDuplicate ==
    (IndexBuilt /\ (DuplicatedSlugs # {} \/ DuplicatedIds # {})) =>
        /\ index_data.raised
        /\ \A k \in DuplicatedSlugs :
               ReportNames("Duplicate slugs found:", k, SlugClaimants(k))
        /\ \A k \in DuplicatedIds :
               ReportNames("Duplicate ids found:", k, IdClaimants(k))

\* C2: when no slug key and no id key is claimed twice, build_index returns;
\* bySlug's keys are exactly the trimmed slugs that are non-empty and neither
\* none nor null, byId's keys are exactly the stringified non-null ids, and
\* every key maps to the zero-based position of the record that carries it.
C2_UniqueKeysIndexed ==
    (IndexBuilt /\ DuplicatedSlugs = {} /\ DuplicatedIds = {}) =>
        /\ ~index_data.raised
        /\ DOMAIN index_data.bySlug = SlugKeys
        /\ DOMAIN index_data.byId = IdKeys
        /\ \A i \in Positions :
               /\ HasSlugKey(i) => index_data.bySlug[SlugKeyAt(i)] = i
               /\ HasIdKey(i) => index_data.byId[IdKeyAt(i)] = i

\* C2's case: two records are indexed under distinct keys while a sentinel
\* slug and a padded slug are among them
C2_Witness ==
    /\ index_pc = "write"
    /\ Len(loaded) = 2
    /\ DuplicatedSlugs = {} /\ DuplicatedIds = {}
    /\ loaded[1].slug = S(<<"N", "o", "n", "e">>)
    /\ loaded[2].slug = S(<<" ", "a", " ">>)
    /\ Cardinality(DOMAIN index_data.byId) = 2

InputRejected ==
    \/ input_file.kind \in {"missing", "invalid_json", "no_companies"}
    \/ \E i, j \in 1..Len(input_file.companies) :
           /\ i < j
           /\ LET a == input_file.companies[i]
                  b == input_file.companies[j]
              IN  \/ /\ a.id.t \in {"str", "int"} /\ b.id.t \in {"str", "int"}
                     /\ Str(a.id) = Str(b.id)
                  \/ /\ a.slug.t = "str" /\ b.slug.t = "str"
                     /\ Strip(a.slug.v) = Strip(b.slug.v)
                     /\ Strip(a.slug.v) # <<>>
                     /\ Lower(Strip(a.slug.v)) \notin
                            {<<"n", "o", "n", "e">>, <<"n", "u", "l", "l">>}

\* C3: the index file exists only once the input has loaded and build_index
\* has returned; a run on a missing file, invalid JSON, a document without
\* the companies key or a duplicated key ends with a non-zero exit code and
\* no index file, and every other run ends with exit code 0 and the index
\* written.
C3_WriteOnlyAfterValidation ==
    /\ index_file.exists =>
           /\ ~InputRejected
           /\ index_pc = "exit"
           /\ index_data = build_index(input_file.companies)
           /\ index_file.bySlug = index_data.bySlug
           /\ index_file.byId = index_data.byId
    /\ index_pc = "exit" =>
           IF InputRejected
           THEN exit_code # 0 /\ ~index_file.exists
           ELSE exit_code = 0 /\ index_file.exists

\* C3's case: a run that loaded its input ends on a duplicate-key failure
C3_Witness ==
    /\ index_pc = "exit"
    /\ input_file.kind = "dataset"
    /\ index_data.raised
    /\ exit_code = 1
    /\ ~index_file.exists

(***************************************************************************)
(* Claims about process_company, checked under SpecRecord and SpecBatch.   *)
(* In state "sort" processed[i] is the canonical record of companies[i].   *)
(***************************************************************************)
CanonicalFields ==
    {"id", "slug", "name", "smallLogoUrl", "oneLiner", "batch", "batchIndex",
     "status", "primaryIndustry", "industries", "badges", "regions"}

\* C4: process_company never raises: whatever its fields hold, every raw
\* record yields a canonical record with all twelve fields.
C4_ProcessCompanyTotal ==
    /\ scrape_pc # "traceback"
    /\ scrape_pc = "sort" =>
           \A i \in 1..Len(processed) : DOMAIN processed[i] = CanonicalFields

\* C5: an absent or null slug, smallLogoUrl, batch or status becomes the
\* empty string, and batchIndex is then empty as well.
C5_AbsentOrNullGivesEmpty ==
    scrape_pc = "sort" =>
        \A i \in 1..Len(companies) :
            \A f \in {"slug", "smallLogoUrl", "batch", "status"} :
                companies[i][f] \in {Absent, Null} =>
                    /\ processed[i][f] = <<>>
                    /\ f = "batch" => processed[i].batchIndex = <<>>

\* C6: primaryIndustry is the first element of the record's canonical
\* industries sequence, and is empty exactly when that sequence is empty.
C6_PrimaryIndustryIsFirstCoerced ==
    scrape_pc = "sort" =>
        \A i \in 1..Len(processed) :
            LET industries == processed[i].industries
                primary == processed[i].primaryIndustry
            IN  /\ industries # <<>> => primary = industries[1]
                /\ (primary = <<>>) <=> (industries = <<>>)

\* the key the contract gives a label: W or S, then only digits
ContractBatchIndex(label) ==
    LET b == Upper(Strip(label))
        rest == SubSeq(b, 2, Len(b))
    IN  IF /\ Len(b) >= 3
           /\ b[1] \in {"W", "S"}
           /\ \A i \in 1..Len(rest) : IsDigit(rest[i])
        THEN NatToText(2000 + DigitsValue(rest))
             \o (IF b[1] = "W" THEN <<".", "2", "5">> ELSE <<".", "7", "5">>)
        ELSE <<>>

\* C9: a label gets a numeric key only when, trimmed and upper-cased, it is W
\* or S followed by a non-negative integer yy, the key being 2000 + yy + 0.25
\* for W and 2000 + yy + 0.75 for S; every other label gets the empty string.
C9_KeyOnlyForDigitSuffix ==
    scrape_pc = "sort" =>
        \A i \in 1..Len(companies) :
            processed[i].batchIndex = ContractBatchIndex(companies[i].batch.v)

(***************************************************************************)
(* The sorter, checked under SpecSort.                                     *)
(***************************************************************************)
Unsorted == [i \in 1..Len(companies) |-> process_company(companies[i]).v]
NumericBatchIndex(row) == PyFloat(row.batchIndex).v
SameSortKeys(r1, r2) ==
    r1.batchIndex = r2.batchIndex /\ Lower(r1.name) = Lower(r2.name)

\* C7: the sorted list is a permutation of the normalised records; known
\* batchIndex before empty; known batchIndex values non-increasing; names of
\* neighbours with equal batchIndex non-decreasing ignoring case; records
\* equal on both keys in their original relative order.
C7_SortedOutput ==
    scrape_pc \in {"write", "exit"} =>
        LET n == Len(processed)
        IN  /\ n = Len(companies)
            /\ \E p \in Permutations(1..n) :
                   /\ \A i \in 1..n : processed[i] = Unsorted[p[i]]
                   /\ \A i, j \in 1..n :
                          (i < j /\ SameSortKeys(processed[i], processed[j]))
                              => p[i] < p[j]
            /\ \A i, j \in 1..n :
                   (i < j /\ processed[i].batchIndex = <<>>)
                       => processed[j].batchIndex = <<>>
            /\ \A i \in 1..(n - 1) :
                   (processed[i].batchIndex # <<>> /\ processed[i + 1].batchIndex # <<>>)
                       => NumericBatchIndex(processed[i]) >= NumericBatchIndex(processed[i + 1])
            /\ \A i \in 1..(n - 1) :
                   processed[i].batchIndex = processed[i + 1].batchIndex
                       => ~TextLess(Lower(processed[i + 1].name), Lower(processed[i].name))

\* C7's case: three records were reordered, one with an empty batchIndex, two
\* equal on both keys yet different records
C7_Witness ==
    /\ scrape_pc = "write"
    /\ Len(processed) = 3
    /\ processed # Unsorted
    /\ processed[3].batchIndex = <<>>
    /\ processed[1].batchIndex # <<>>
    /\ SameSortKeys(processed[1], processed[2])
    /\ processed[1] # processed[2]

(***************************************************************************)
(* Claims about fetch_companies, checked under SpecFetch.                  *)
(***************************************************************************)
Requests == Cardinality({i \in DOMAIN io_log : io_log[i] = "get"})

RECURSIVE PagesCompanies(_)
PagesCompanies(n) ==
    IF n = 0 THEN <<>> ELSE PagesCompanies(n - 1) \o upstream[n].companies

\* C8: with a cap n >= 0 as max_pages at most n page requests are issued;
\* without a cap the loop ends only on a null nextPage or a transport
\* failure; the returned list is the concatenation, in order, of the
\* companies of the pages fetched.
C8_RequestsWithinCap ==
    /\ max_pages.t = "int" => Requests <= max_pages.v
    /\ (scrape_pc = "fetched" /\ max_pages = Null) => (url = Null \/ ~Response(url).ok)
    /\ scrape_pc = "fetched" => companies = PagesCompanies(page_count)

\* C10: when fetch_companies returns, every delay taken was followed by
\* another page request, and none was taken after the last page fetched.
C10_NoDelayAfterFinalPage ==
    scrape_pc = "fetched" =>
        /\ \A i \in 1..(Len(io_log) - 1) : io_log[i] = "sleep" => io_log[i + 1] = "get"
        /\ io_log # <<>> => io_log[Len(io_log)] # "sleep"

=============================================================================
